---- MODULE Spec2Model ----
(***************************************************************************)
(* The Home component of the wealth analyst: the chat session with the     *)
(* remote agent (handleSendMessage) and the ranking view derived from the  *)
(* last analysis (filter, sort, paginate, export).                         *)
(*                                                                         *)
(* The repository holds two copies of the component that differ in a few   *)
(* lines: src/unnamed/part_000 and src/app/page.tsx.  The variable         *)
(* `variant` says which copy is running; it never changes.                 *)
(*                                                                         *)
(* React state is modelled by one variable per useState cell.  A JS value  *)
(* that may be undefined or null is a sequence of length at most one:      *)
(* None is undefined/null, Some(v) is the value v.  Texts are strings.     *)
(* The timestamp fields (new Date()) are left out: no operation reads      *)
(* them back.                                                              *)
(***************************************************************************)
EXTENDS Naturals, Integers, Sequences, FiniteSets, TLC

VARIABLES
    variant,            \* "part_000" or "page": which copy of Home runs
    loading,            \* useState(false)
    chatMessages,       \* useState<ChatMessage[]>([])
    inputMessage,       \* useState('')
    analysisData,       \* useState<AnalysisResult | null>(null)
    currentPage,        \* useState(1)
    selectedMarkets,    \* useState(['NSE','BSE','CMX','US'])
    selectedAssetTypes, \* useState(['stock','mutual_fund','etf'])
    riskLevel,          \* useState('Medium')
    sortConfig,         \* useState({key, direction})
    selectedInvestment, \* useState<RankedInvestment | null>(null)
    modalOpen,          \* useState(false)
    pending,            \* the callAIAgent promises not yet settled
    nextReq,            \* number of handleSendMessage calls that got past the guard
    origin,             \* history: origin[i] is the call that appended chatMessages[i]
    exported,           \* the downloads handleExportCSV has produced
    last                \* history: the last step of handleSendMessage, with its input

vars == << variant, loading, chatMessages, inputMessage, analysisData, currentPage,
           selectedMarkets, selectedAssetTypes, riskLevel, sortConfig,
           selectedInvestment, modalOpen, pending, nextReq, origin, exported, last >>

None == << >>
Some(v) == << v >>
IsSome(o) == Len(o) = 1
Get(o) == o[1]

(***************************************************************************)
(* Bounds of the model.                                                    *)
(***************************************************************************)
MaxSubmits == 2     \* handleSendMessage calls per behaviour

FracDigits == 2     \* decimals kept of a parsed number; numbers are integers in units of 10^-FracDigits

(***************************************************************************)
(* Strings.  A JS string is a TLA+ string; Char(s, i) is s.charAt(i-1).    *)
(***************************************************************************)
Char(s, i) == SubSeq(s, i, i)

Digits == "0123456789"
UpperCase == "ABCDEFGHIJKLMNOPQRSTUVWXYZ"
LowerCase == "abcdefghijklmnopqrstuvwxyz"

InString(str, c) == \E i \in 1..Len(str) : Char(str, i) = c
IndexOf(str, c) == CHOOSE i \in 1..Len(str) : Char(str, i) = c

IsDigit(c) == InString(Digits, c)
DigitValue(c) == IndexOf(Digits, c) - 1

\* The UTF-16 code unit of a character of the texts the model uses.
CharCode(c) ==
    IF IsDigit(c) THEN 47 + IndexOf(Digits, c)
    ELSE IF InString(UpperCase, c) THEN 64 + IndexOf(UpperCase, c)
    ELSE IF InString(LowerCase, c) THEN 96 + IndexOf(LowerCase, c)
    ELSE CASE c = " " -> 32 [] c = "(" -> 40 [] c = ")" -> 41 [] c = "+" -> 43
           [] c = "," -> 44 [] c = "-" -> 45 [] c = "." -> 46 [] c = "/" -> 47
           [] c = "_" -> 95

\* String.prototype.trim over the blank character.
RECURSIVE TrimStart(_)
TrimStart(s) ==
    IF Len(s) > 0 /\ Char(s, 1) = " " THEN TrimStart(SubSeq(s, 2, Len(s))) ELSE s

RECURSIVE TrimEnd(_)
TrimEnd(s) ==
    IF Len(s) > 0 /\ Char(s, Len(s)) = " " THEN TrimEnd(SubSeq(s, 1, Len(s) - 1)) ELSE s

trim(s) == TrimEnd(TrimStart(s))

\* String.prototype.toLowerCase.
RECURSIVE toLowerCase(_)
toLowerCase(s) ==
    IF Len(s) = 0 THEN ""
    ELSE LET c == Char(s, 1)
             lc == IF InString(UpperCase, c) THEN Char(LowerCase, IndexOf(UpperCase, c)) ELSE c
         IN  lc \o toLowerCase(SubSeq(s, 2, Len(s)))

\* String.prototype.replace(from, to) with a one-character pattern: the first
\* occurrence only.
RECURSIVE replace(_, _, _)
replace(s, from, to) ==
    IF Len(s) = 0 THEN ""
    ELSE IF Char(s, 1) = from THEN to \o SubSeq(s, 2, Len(s))
    ELSE Char(s, 1) \o replace(SubSeq(s, 2, Len(s)), from, to)

\* Array.prototype.join.
RECURSIVE join(_, _)
join(arr, sep) ==
    IF Len(arr) = 0 THEN ""
    ELSE IF Len(arr) = 1 THEN arr[1]
    ELSE arr[1] \o sep \o join(Tail(arr), sep)

\* The JS truthiness of a string.
Truthy(s) == s # ""

(***************************************************************************)
(* JS values as the sort comparator sees them.  A number is an integer in  *)
(* units of 10^-FracDigits, or NaN.                                        *)
(***************************************************************************)
Undefined == [t |-> "undefined"]
Str(s) == [t |-> "string", s |-> s]
Num(n) == [t |-> "number", nan |-> FALSE, n |-> n]
NaN == [t |-> "number", nan |-> TRUE, n |-> 0]
Obj(r) == [t |-> "object", o |-> r]

RECURSIVE Pow10(_)
Pow10(k) == IF k = 0 THEN 1 ELSE 10 * Pow10(k - 1)

Scale == Pow10(FracDigits)

\* The length of the longest run of digits of s that starts at position i.
RECURSIVE DigitRun(_, _)
DigitRun(s, i) ==
    IF i <= Len(s) /\ IsDigit(Char(s, i)) THEN 1 + DigitRun(s, i + 1) ELSE 0

\* The value of the digits s[i .. i+k-1] read as a decimal integer.
RECURSIVE DigitsValue(_, _, _)
DigitsValue(s, i, k) ==
    IF k = 0 THEN 0
    ELSE 10 * DigitsValue(s, i, k - 1) + DigitValue(Char(s, i + k - 1))

\* The value of the fraction digits s[i .. i+k-1] in units of 10^-FracDigits
\* (digits beyond FracDigits are dropped).
FractionValue(s, i, k) ==
    IF k >= FracDigits THEN DigitsValue(s, i, FracDigits)
    ELSE DigitsValue(s, i, k) * Pow10(FracDigits - k)

\* The longest prefix of s that is a decimal literal: sign, digits, '.', digits.
\* ok says whether there is one, n is its value, len its length.  Exponents and
\* "Infinity" are not read: no text of the model has them.
\* sign, ip, dot and fp are the lengths of the four parts as read from s.
Magnitude(s, sign, ip, fp) ==
    DigitsValue(s, sign + 1, ip) * Scale + FractionValue(s, sign + ip + 2, fp)

Negate(s, sign, mag) == IF sign = 1 /\ Char(s, 1) = "-" THEN 0 - mag ELSE mag

LiteralParts(s, sign, ip, dot, fp) ==
    [ok  |-> ip + fp > 0,
     n   |-> Negate(s, sign, Magnitude(s, sign, ip, fp)),
     len |-> IF ip + fp > 0 THEN sign + ip + dot + fp ELSE 0]

LiteralAfterDot(s, sign, ip, dot) ==
    LiteralParts(s, sign, ip, dot, IF dot = 1 THEN DigitRun(s, sign + ip + 2) ELSE 0)

LiteralAfterDigits(s, sign, ip) ==
    LiteralAfterDot(s, sign, ip,
                    IF sign + ip + 1 <= Len(s) /\ Char(s, sign + ip + 1) = "." THEN 1 ELSE 0)

LiteralAfterSign(s, sign) == LiteralAfterDigits(s, sign, DigitRun(s, sign + 1))

StrDecimalLiteral(s) ==
    LiteralAfterSign(s, IF Len(s) > 0 /\ Char(s, 1) \in {"+", "-"} THEN 1 ELSE 0)

\* The global parseFloat: leading blanks skipped, the longest numeric prefix
\* read, NaN when there is none.
PrefixNumber(lit) == IF lit.ok THEN Num(lit.n) ELSE NaN

parseFloat(s) == PrefixNumber(StrDecimalLiteral(TrimStart(s)))

\* ToNumber of a string: the whole trimmed text must be a literal; '' is 0.
WholeNumber(t, lit) == IF lit.ok /\ lit.len = Len(t) THEN Num(lit.n) ELSE NaN

TrimmedToNumber(t) == IF t = "" THEN Num(0) ELSE WholeNumber(t, StrDecimalLiteral(t))

StringToNumber(s) == TrimmedToNumber(trim(s))

\* ToNumber of a value the comparator can hold.
ToNumber(v) ==
    CASE v.t = "number"    -> v
      [] v.t = "string"    -> StringToNumber(v.s)
      [] v.t = "undefined" -> NaN

\* The JS truthiness of a number: NaN and 0 are falsy.
TruthyNumber(v) == ~v.nan /\ v.n # 0

\* a < b on two strings: by UTF-16 code units, a proper prefix first.
RECURSIVE StringLess(_, _)
StringLess(a, b) ==
    IF Len(b) = 0 THEN FALSE
    ELSE IF Len(a) = 0 THEN TRUE
    ELSE IF CharCode(Char(a, 1)) # CharCode(Char(b, 1))
         THEN CharCode(Char(a, 1)) < CharCode(Char(b, 1))
    ELSE StringLess(SubSeq(a, 2, Len(a)), SubSeq(b, 2, Len(b)))

\* The JS operator a < b: two strings compare as text, anything else as
\* numbers, and a comparison with NaN is false.
NumberLess(x, y) == ~x.nan /\ ~y.nan /\ x.n < y.n

LessThan(a, b) ==
    IF a.t = "string" /\ b.t = "string" THEN StringLess(a.s, b.s)
    ELSE NumberLess(ToNumber(a), ToNumber(b))

(***************************************************************************)
(* The fixed vocabularies of the user interface.                           *)
(***************************************************************************)
MARKETS == << "NSE", "BSE", "CMX", "US" >>
ASSET_TYPES == << "stock", "mutual_fund", "etf" >>
RISK_LEVELS == << "Conservative", "Medium", "Aggressive" >>

Range(f) == { f[i] : i \in DOMAIN f }
includes(arr, x) == \E i \in DOMAIN arr : arr[i] = x

\* Array.prototype.filter with the predicate "differs from x".
RECURSIVE without(_, _)
without(arr, x) ==
    IF Len(arr) = 0 THEN << >>
    ELSE IF arr[1] = x THEN without(Tail(arr), x)
    ELSE << arr[1] >> \o without(Tail(arr), x)

(***************************************************************************)
(* getFilteredAndSortedInvestments: the filter.                            *)
(***************************************************************************)
\* Mutant: no length === 0 test, so an empty selection matches nothing.
InvestmentMatches_EmptyMatchesNothing(inv, markets, assetTypes) ==
    LET marketMatch == includes(markets, inv.market)
        assetMatch  == includes(assetTypes, inv.asset_type)
    IN  marketMatch /\ assetMatch

\* Mutant: marketMatch || assetMatch.
InvestmentMatches_AnyAxis(inv, markets, assetTypes) ==
    LET marketMatch == Len(markets) = 0 \/ includes(markets, inv.market)
        assetMatch  == Len(assetTypes) = 0 \/ includes(assetTypes, inv.asset_type)
    IN  marketMatch \/ assetMatch

InvestmentMatches(inv, markets, assetTypes) ==
    LET marketMatch == Len(markets) = 0 \/ includes(markets, inv.market)
        assetMatch  == Len(assetTypes) = 0 \/ includes(assetTypes, inv.asset_type)
    IN  marketMatch /\ assetMatch

RECURSIVE FilterInvestments(_, _, _)
FilterInvestments(invs, markets, assetTypes) ==
    IF Len(invs) = 0 THEN << >>
    ELSE (IF InvestmentMatches(invs[1], markets, assetTypes) THEN << invs[1] >> ELSE << >>)
         \o FilterInvestments(Tail(invs), markets, assetTypes)

(***************************************************************************)
(* getFilteredAndSortedInvestments: the comparator.                        *)
(***************************************************************************)
\* String.prototype.split(sep) with a one-character separator.
RECURSIVE split(_, _)
split(s, sep) ==
    LET at == { i \in 1..Len(s) : Char(s, i) = sep }
    IN  IF at = {} THEN << s >>
        ELSE LET d == CHOOSE i \in at : \A j \in at : i <= j
             IN  << SubSeq(s, 1, d - 1) >> \o split(SubSeq(s, d + 1, Len(s)), sep)

\* The fields of an investment that hold an object; the others hold strings.
\* An object field that the agent left out is None.
ObjectFields == { "four_pillar_score" }

\* v?.[key]
Prop(v, key) ==
    IF v.t = "object" /\ key \in DOMAIN v.o
    THEN IF key \in ObjectFields
         THEN (IF IsSome(v.o[key]) THEN Obj(Get(v.o[key])) ELSE Undefined)
         ELSE Str(v.o[key])
    ELSE Undefined

\* for (const key of keys) aVal = aVal?.[key]
RECURSIVE Walk(_, _)
Walk(v, keys) ==
    IF Len(keys) = 0 THEN v ELSE Walk(Prop(v, keys[1]), Tail(keys))

\* if (typeof aVal === 'string') aVal = parseFloat(aVal) || aVal
OrElse(parsed, v) == IF TruthyNumber(parsed) THEN parsed ELSE v

Coerce(v) == IF v.t # "string" THEN v ELSE OrElse(parseFloat(v.s), v)

\* The key of an investment, keys being sortConfig.key.split('.').
ResolveKey(inv, keys) == Coerce(Walk(Obj(inv), keys))

SortKey(inv, key) == ResolveKey(inv, split(key, "."))

\* The comparator's verdict on two resolved keys: negative, zero or positive.
CompareKeys(aVal, bVal, direction) ==
    IF LessThan(aVal, bVal) THEN (IF direction = "asc" THEN 0 - 1 ELSE 1)
    ELSE IF LessThan(bVal, aVal) THEN (IF direction = "asc" THEN 1 ELSE 0 - 1)
    ELSE 0

\* The comparator passed to sort.
Compare(a, b, config) ==
    CompareKeys(SortKey(a, config.key), SortKey(b, config.key), config.direction)

(***************************************************************************)
(* Array.prototype.sort as the engine runs it on an array shorter than 64  *)
(* elements: the leading run is found (and reversed when it descends),     *)
(* then every later element is placed by binary insertion.  With a         *)
(* consistent comparator this is any stable sort.  The comparator is pure, *)
(* so the key of each element is resolved once: the sort works on pairs    *)
(* [item, key] and compares the keys.                                      *)
(***************************************************************************)
RECURSIVE WithKeys(_, _)
WithKeys(arr, keys) ==
    IF Len(arr) = 0 THEN << >>
    ELSE << [ item |-> arr[1], key |-> ResolveKey(arr[1], keys) ] >> \o WithKeys(Tail(arr), keys)

RECURSIVE Items(_)
Items(pairs) ==
    IF Len(pairs) = 0 THEN << >> ELSE << pairs[1].item >> \o Items(Tail(pairs))

\* The index of the last element of the run that starts at 1, idx being the
\* next candidate.
RECURSIVE RunEnd(_, _, _, _)
RunBreaks(order, isDescending) ==
    (isDescending /\ order >= 0) \/ (~isDescending /\ order < 0)

RunEnd(arr, idx, isDescending, direction) ==
    IF idx > Len(arr) THEN idx - 1
    ELSE IF RunBreaks(CompareKeys(arr[idx].key, arr[idx - 1].key, direction), isDescending)
         THEN idx - 1
         ELSE RunEnd(arr, idx + 1, isDescending, direction)

RECURSIVE Reverse(_)
Reverse(arr) ==
    IF Len(arr) = 0 THEN << >> ELSE Append(Reverse(Tail(arr)), Head(arr))

\* The first k elements reversed, the others in place.
ReversePrefix(arr, k) == Reverse(SubSeq(arr, 1, k)) \o SubSeq(arr, k + 1, Len(arr))

\* The insertion point of pivot in the sorted arr[left .. right-1].
RECURSIVE BinarySearch(_, _, _, _, _)
BinarySearch(arr, pivot, left, right, direction) ==
    IF left >= right THEN left
    ELSE LET mid == left + ((right - left) \div 2)
         IN  IF CompareKeys(pivot.key, arr[mid].key, direction) < 0
             THEN BinarySearch(arr, pivot, left, mid, direction)
             ELSE BinarySearch(arr, pivot, mid + 1, right, direction)

\* arr[start] moved to position left <= start, those between shifted up by one.
InsertAt(arr, start, left) ==
    SubSeq(arr, 1, left - 1) \o << arr[start] >> \o SubSeq(arr, left, start - 1)
    \o SubSeq(arr, start + 1, Len(arr))

RECURSIVE BinaryInsertionSort(_, _, _)
BinaryInsertionSort(arr, start, direction) ==
    IF start > Len(arr) THEN arr
    ELSE BinaryInsertionSort(
             InsertAt(arr, start, BinarySearch(arr, arr[start], 1, start, direction)),
             start + 1, direction)

\* The leading run of runLength elements put in ascending order, the others
\* inserted.
SortAfterRun(arr, isDescending, runLength, direction) ==
    BinaryInsertionSort(IF isDescending THEN ReversePrefix(arr, runLength) ELSE arr,
                        runLength + 1, direction)

SortFromRun(arr, isDescending, direction) ==
    SortAfterRun(arr, isDescending, RunEnd(arr, 3, isDescending, direction), direction)

SortPairs(arr, direction) ==
    IF Len(arr) < 2 THEN arr
    ELSE SortFromRun(arr, CompareKeys(arr[2].key, arr[1].key, direction) < 0, direction)

sort(arr, config) ==
    Items(SortPairs(WithKeys(arr, split(config.key, ".")), config.direction))

\* getFilteredAndSortedInvestments(): data is analysisData (None when null).
getFilteredAndSortedInvestments(data, markets, assetTypes, config) ==
    IF ~IsSome(data) \/ ~IsSome(Get(data).ranked_investments) THEN << >>
    ELSE sort(FilterInvestments(Get(Get(data).ranked_investments), markets, assetTypes),
              config)

\* Math.ceil(n / d) for n >= 0, d > 0.
Ceil(n, d) == (n + d - 1) \div d

\* Array.prototype.slice(from, to) with 0 <= from (0-based, to exclusive).
slice(arr, from, to) ==
    LET hi == IF to < Len(arr) THEN to ELSE Len(arr)
    IN  IF from >= hi THEN << >> ELSE SubSeq(arr, from + 1, hi)

Min(a, b) == IF a < b THEN a ELSE b
Max(a, b) == IF a > b THEN a ELSE b

(***************************************************************************)
(* What the agent can answer.  The agent is outside the program: its       *)
(* answer is an input, drawn from AgentResults when the call settles.      *)
(***************************************************************************)
LargeResultSize == 25   \* investments of the large analysis

TwoDigits(i) == Char(Digits, (i \div 10) + 1) \o Char(Digits, (i % 10) + 1)

LargeScores == << "7.5", "9", "10", "8.25", "6", "9.5", "7.5" >>

LargeInvestment(i) ==
    [ symbol            |-> "A" \o TwoDigits(i),
      name              |-> "Asset " \o TwoDigits(LargeResultSize + 1 - i),
      market            |-> MARKETS[((i - 1) % Len(MARKETS)) + 1],
      asset_type        |-> ASSET_TYPES[((i - 1) % Len(ASSET_TYPES)) + 1],
      four_pillar_score |-> Some([ overall_score |-> LargeScores[((i - 1) % Len(LargeScores)) + 1] ]) ]

\* A full analysis: every text present, more rows than one page holds.
LargeResult ==
    [ conversational_insight |-> "Here are my top picks.",
      analysis_summary       |-> "Ranked by four-pillar score.",
      ranked_investments     |-> Some([ i \in 1..LargeResultSize |-> LargeInvestment(i) ]),
      csv_export_data        |-> "symbol,score/A01,7.5" ]

\* A short analysis with no insight text, scores that are labels or zero, and
\* one investment without its score object.
SmallResult ==
    [ conversational_insight |-> "",
      analysis_summary       |-> "Three candidates.",
      ranked_investments     |-> Some(<<
          [ symbol |-> "TCS", name |-> "Tata Consultancy", market |-> "NSE",
            asset_type |-> "stock",
            four_pillar_score |-> Some([ overall_score |-> "Excellent" ]) ],
          [ symbol |-> "GOLD", name |-> "Gold Future", market |-> "CMX",
            asset_type |-> "etf", four_pillar_score |-> None ],
          [ symbol |-> "SPY", name |-> "S/P 500 ETF", market |-> "US",
            asset_type |-> "etf",
            four_pillar_score |-> Some([ overall_score |-> "0" ]) ] >>),
      csv_export_data        |-> "symbol,score/TCS,Excellent" ]

\* An analysis with no texts, no investment list and no CSV.
BareResult ==
    [ conversational_insight |-> "",
      analysis_summary       |-> "",
      ranked_investments     |-> None,
      csv_export_data        |-> "" ]

\* An element of ranked_investments that is null instead of an investment.
\* It has no property: null?.[key] is undefined (Prop finds no key in it) and
\* null.key is a TypeError.
NullInvestment == [ isNull |-> TRUE ]
IsNull(inv) == inv = NullInvestment

\* An analysis whose investment list holds a null element.
MalformedResult ==
    [ conversational_insight |-> "Two more ideas.",
      analysis_summary       |-> "",
      ranked_investments     |-> Some(<<
          [ symbol |-> "INFY", name |-> "Infosys", market |-> "NSE",
            asset_type |-> "stock",
            four_pillar_score |-> Some([ overall_score |-> "8" ]) ],
          NullInvestment >>),
      csv_export_data        |-> "symbol,score/INFY,8" ]

Results == { LargeResult, SmallResult, BareResult, MalformedResult }

Metadata == [ agent_name |-> "Wealth Analyst" ]

\* The rejected promise.
Thrown == [ kind |-> "throw" ]
\* The resolved promise: {success, response?}.
Returned(success, response) == [ kind |-> "value", success |-> success, response |-> response ]
\* response: {status, result?, metadata?, message?}.
Response(status, result, message) ==
    [ status |-> status, result |-> result, metadata |-> Some(Metadata), message |-> message ]

AgentResults ==
    { Thrown,
      Returned(FALSE, None),
      Returned(FALSE, Some(Response("error", None, Some("Agent unavailable.")))),
      Returned(TRUE, None),
      Returned(TRUE, Some(Response("error", None, None))),
      Returned(TRUE, Some(Response("error", None, Some("")))),
      Returned(TRUE, Some(Response("error", None, Some("No data for that query.")))),
      Returned(TRUE, Some(Response("success", None, None))) }
    \cup { Returned(TRUE, Some(Response("success", Some(r), None))) : r \in Results }

\* Transport failure: the call produced no payload at all.
IsTransportFailure(res) == res.kind = "throw" \/ (~res.success /\ ~IsSome(res.response))
\* A payload arrived and says it is no success.
IsLogicalFailure(res) ==
    /\ res.kind = "value" /\ res.success /\ IsSome(res.response)
    /\ Get(res.response).status # "success"
\* A payload arrived, says success and carries a result.
IsFullSuccess(res) ==
    /\ res.kind = "value" /\ res.success /\ IsSome(res.response)
    /\ Get(res.response).status = "success" /\ IsSome(Get(res.response).result)

(***************************************************************************)
(* The constants of the two copies of Home.                                *)
(***************************************************************************)
Variants == { "part_000", "page" }

ITEMS_PER_PAGE_part_000 == 10
ITEMS_PER_PAGE_page == 20
ITEMS_PER_PAGE == IF variant = "part_000" THEN ITEMS_PER_PAGE_part_000 ELSE ITEMS_PER_PAGE_page

NetworkErrorText == "Network error. Please try again."
DefaultErrorText == "Sorry, I encountered an error processing your request."
DefaultSuccessText == "Analysis complete."

InitialSortConfig == [ key |-> "four_pillar_score.overall_score", direction |-> "desc" ]

(***************************************************************************)
(* What the render derives from the state.                                 *)
(***************************************************************************)
\* data.ranked_investments holds a null element
HasNull(data) ==
    /\ IsSome(data)
    /\ IsSome(Get(data).ranked_investments)
    /\ \E i \in DOMAIN Get(Get(data).ranked_investments) :
           IsNull(Get(Get(data).ranked_investments)[i])

\* The filter callback reads inv.market or inv.asset_type of a null element:
\* a TypeError.  Each is read only when its selection is not empty
\* (selectedMarkets.length === 0 || ..., selectedAssetTypes.length === 0 || ...).
FilterThrows ==
    /\ HasNull(analysisData)
    /\ (Len(selectedMarkets) # 0 \/ Len(selectedAssetTypes) # 0)

\* let filtered = analysisData.ranked_investments.filter(...), [] without a list.
\* A filter that throws returns nothing: the render stops there (RenderThrows).
filtered ==
    IF ~IsSome(analysisData) \/ ~IsSome(Get(analysisData).ranked_investments) THEN << >>
    ELSE IF FilterThrows THEN << >>
    ELSE FilterInvestments(Get(Get(analysisData).ranked_investments),
                           selectedMarkets, selectedAssetTypes)

\* const filteredInvestments = getFilteredAndSortedInvestments().  The sort
\* does not throw on a null element (aVal?.[key]).
filteredInvestments ==
    IF FilterThrows THEN << >>
    ELSE getFilteredAndSortedInvestments(analysisData, selectedMarkets, selectedAssetTypes,
                                         sortConfig)

\* Math.ceil(filteredInvestments.length / ITEMS_PER_PAGE); sort works in place,
\* so the length is that of the filter's output.
totalPages == Ceil(Len(filtered), ITEMS_PER_PAGE)

paginatedInvestments ==
    slice(filteredInvestments, (currentPage - 1) * ITEMS_PER_PAGE, currentPage * ITEMS_PER_PAGE)

\* Mutant: the sort is called on analysisData.ranked_investments itself, before
\* the filter, so every render reorders the stored list.
RankedAfterRender_SortInPlace(list, config) == sort(list, config)

\* analysisData.ranked_investments after getFilteredAndSortedInvestments has
\* run under the sort state config: filter() returns a new array and sort()
\* reorders that one in place, so the stored array is as it was.
RankedAfterRender(list, config) == list

\* analysisData after the render that follows a state change.
AfterRender(data, config) ==
    IF ~IsSome(data) \/ ~IsSome(Get(data).ranked_investments) THEN data
    ELSE Some([ Get(data) EXCEPT !.ranked_investments =
                    Some(RankedAfterRender(Get(Get(data).ranked_investments), config)) ])

\* The rankings table is rendered: analysisData && filteredInvestments.length > 0.
TableShown == IsSome(analysisData) /\ Len(filtered) > 0
\* The pagination controls are rendered.
PaginationShown == TableShown /\ totalPages > 1

\* A row of the table reads investment.symbol of a null element, or
\* investment.four_pillar_score.overall_score of an investment without
\* four_pillar_score: a TypeError.  Only a list that has such an element needs
\* to be filtered and sorted to tell.
RowThrows ==
    /\ IsSome(analysisData)
    /\ IsSome(Get(analysisData).ranked_investments)
    /\ \E i \in DOMAIN Get(Get(analysisData).ranked_investments) :
           \/ IsNull(Get(Get(analysisData).ranked_investments)[i])
           \/ ~IsSome(Get(Get(analysisData).ranked_investments)[i].four_pillar_score)
    /\ TableShown
    /\ \E i \in DOMAIN paginatedInvestments :
           \/ IsNull(paginatedInvestments[i])
           \/ ~IsSome(paginatedInvestments[i].four_pillar_score)

\* The render of Home throws.  Nothing in the component catches it: the
\* component is unmounted and none of its handlers can run any more.
RenderThrows == FilterThrows \/ RowThrows
Mounted == ~RenderThrows

(***************************************************************************)
(* Init: the state after the first render of Home.                         *)
(***************************************************************************)
NoResult == [ kind |-> "none" ]

Init ==
    /\ variant \in Variants
    /\ loading = FALSE
    /\ chatMessages = << >>
    /\ inputMessage = ""
    /\ analysisData = None
    /\ currentPage = 1
    /\ selectedMarkets = MARKETS
    /\ selectedAssetTypes = ASSET_TYPES
    /\ riskLevel = "Medium"
    /\ sortConfig = InitialSortConfig
    /\ selectedInvestment = None
    /\ modalOpen = FALSE
    /\ pending = {}
    /\ nextReq = 0
    /\ origin = << >>
    /\ exported = None
    /\ last = [ op |-> "init", req |-> 0, message |-> None, result |-> NoResult ]

(***************************************************************************)
(* handleSendMessage up to the await.  message is None when the handler is *)
(* called without an argument.                                             *)
(***************************************************************************)
UserMessage(text) == [ role |-> "user", content |-> text, data |-> None, metadata |-> None ]

\* Mutant: the typed text is sent as typed, without trim().
MessageToSend_NoTrim(message) ==
    IF IsSome(message) /\ Truthy(Get(message)) THEN Get(message) ELSE inputMessage

MessageToSend(message) ==
    IF IsSome(message) /\ Truthy(Get(message)) THEN Get(message) ELSE trim(inputMessage)

handleSendMessage(message) ==
    LET messageToSend == MessageToSend(message)
    IN  IF ~Truthy(messageToSend)
        THEN UNCHANGED vars
        ELSE /\ nextReq < MaxSubmits
             /\ loading' = TRUE
             /\ chatMessages' = Append(chatMessages, UserMessage(messageToSend))
             /\ inputMessage' = ""
             /\ pending' = pending \cup { [ id |-> nextReq + 1, message |-> messageToSend ] }
             /\ nextReq' = nextReq + 1
             /\ origin' = Append(origin, nextReq + 1)
             /\ last' = [ op |-> "submit", req |-> nextReq + 1, message |-> message,
                          result |-> NoResult ]
             /\ UNCHANGED << variant, analysisData, currentPage, selectedMarkets,
                             selectedAssetTypes, riskLevel, sortConfig, exported, selectedInvestment, modalOpen >>

(***************************************************************************)
(* handleSendMessage from the await on: the call of request p settles with *)
(* res.                                                                    *)
(***************************************************************************)
\* content of the assistant message of a success, in each copy
SuccessContent_part_000(data) ==
    IF Truthy(data.conversational_insight) THEN data.conversational_insight
    ELSE IF Truthy(data.analysis_summary) THEN data.analysis_summary
    ELSE DefaultSuccessText

SuccessContent_page(data) ==
    IF Truthy(data.conversational_insight) THEN data.conversational_insight
    ELSE DefaultSuccessText

SuccessContent(data) ==
    IF variant = "part_000" THEN SuccessContent_part_000(data) ELSE SuccessContent_page(data)

\* setCurrentPage(1) is in part_000 only
PageAfterSuccess == IF variant = "part_000" THEN 1 ELSE currentPage

\* Mutant: result.response.message ?? default, so an empty message is kept.
FailureContent_Nullish(response) ==
    IF IsSome(response.message) THEN Get(response.message) ELSE DefaultErrorText

\* content of the assistant message of the else branch
FailureContent(response) ==
    IF IsSome(response.message) /\ Truthy(Get(response.message))
    THEN Get(response.message)
    ELSE DefaultErrorText

AssistantMessage(content, data, metadata) ==
    [ role |-> "assistant", content |-> content, data |-> data, metadata |-> metadata ]

\* The branch the try block takes: "success", "else", or "catch" when the
\* promise rejects or a property of undefined is read.
Branch(res) ==
    IF res.kind = "throw" THEN "catch"
    ELSE IF ~res.success
         THEN (IF IsSome(res.response) THEN "else" ELSE "catch")
    ELSE IF ~IsSome(res.response) THEN "catch"
    ELSE IF Get(res.response).status = "success"
         THEN (IF IsSome(Get(res.response).result) THEN "success" ELSE "catch")
    ELSE "else"

\* Mutant: the entry of a logical failure carries the analysis held.
AssistantReply_AttachOnFailure(res) ==
    CASE Branch(res) = "success" ->
           AssistantMessage(SuccessContent(Get(Get(res.response).result)),
                            Get(res.response).result, Get(res.response).metadata)
      [] Branch(res) = "else" ->
           AssistantMessage(FailureContent(Get(res.response)), analysisData, None)
      [] Branch(res) = "catch" ->
           AssistantMessage(NetworkErrorText, None, None)

\* the message the settled call appends
AssistantReply(res) ==
    CASE Branch(res) = "success" ->
           AssistantMessage(SuccessContent(Get(Get(res.response).result)),
                            Get(res.response).result, Get(res.response).metadata)
      [] Branch(res) = "else" ->
           AssistantMessage(FailureContent(Get(res.response)), None, None)
      [] Branch(res) = "catch" ->
           AssistantMessage(NetworkErrorText, None, None)

\* src/app/page.tsx, after the success branch has queued its updates: the
\* reduce over data.ranked_investments reads inv.market of a null element.
\* The TypeError is raised inside the try block.
ReduceThrows(res) ==
    /\ variant = "page"
    /\ Branch(res) = "success"
    /\ HasNull(Get(res.response).result)

\* the messages the settled call appends, in order: that of the branch taken
\* and, when the success branch throws after it, that of the catch block
AssistantReplies(res) ==
    IF ReduceThrows(res)
    THEN << AssistantReply(res), AssistantMessage(NetworkErrorText, None, None) >>
    ELSE << AssistantReply(res) >>

\* Mutant: the catch block puts the error in the place of the last message.
ChatAfterSettle_ReplaceOnCatch(res) ==
    IF Branch(res) = "catch"
    THEN Append(SubSeq(chatMessages, 1, Len(chatMessages) - 1), AssistantReply(res))
    ELSE chatMessages \o AssistantReplies(res)

\* setChatMessages(prev => [...prev, message]), once per message
ChatAfterSettle(res) == chatMessages \o AssistantReplies(res)

\* Mutant: the catch block also clears the analysis.
AnalysisAfterSettle_ClearOnCatch(res) ==
    CASE Branch(res) = "success" -> Get(res.response).result
      [] Branch(res) = "else"    -> analysisData
      [] Branch(res) = "catch"   -> None

\* Mutant: a new result without an investment list keeps the list of the old one.
AnalysisAfterSettle_Merge(res) ==
    IF Branch(res) # "success" THEN analysisData
    ELSE LET data == Get(Get(res.response).result)
         IN  IF IsSome(analysisData) /\ ~IsSome(data.ranked_investments)
             THEN Some([ data EXCEPT !.ranked_investments = Get(analysisData).ranked_investments ])
             ELSE Some(data)

\* Mutant: a response that arrives while another request is in flight is dropped.
AnalysisAfterSettle_DropOverlapped(res) ==
    IF Branch(res) = "success" /\ Cardinality(pending) = 1
    THEN Get(res.response).result ELSE analysisData

\* setAnalysisData(data), in the success branch only
AnalysisAfterSettle(res) ==
    IF Branch(res) = "success" THEN Get(res.response).result ELSE analysisData

\* setCurrentPage(1), in the success branch of part_000 only
PageAfterSettle(res) ==
    IF Branch(res) = "success" THEN PageAfterSuccess ELSE currentPage

\* Mutant: setLoading(false) at the end of the try block, not in a finally.
LoadingAfterSettle_NoFinally(res) == IF Branch(res) = "catch" THEN loading ELSE FALSE

\* Mutant: setLoading(false) is put off to a later tick (setTimeout), so the
\* response is on screen while the busy flag is still up.
LoadingAfterSettle_Deferred(res) == loading

\* finally { setLoading(false) }
LoadingAfterSettle(res) == FALSE

\* The continuation of an unmounted component changes nothing that can be seen.
AgentCallSettles(p, res) ==
    /\ Mounted
    /\ p \in pending
    /\ pending' = pending \ { p }
    /\ chatMessages' = ChatAfterSettle(res)
    /\ analysisData' = AfterRender(AnalysisAfterSettle(res), sortConfig)
    /\ currentPage' = PageAfterSettle(res)
    /\ loading' = LoadingAfterSettle(res)
    /\ origin' = origin \o [ i \in 1..Len(AssistantReplies(res)) |-> p.id ]
    /\ last' = [ op |-> "settle", req |-> p.id, message |-> None, result |-> res ]
    /\ UNCHANGED << variant, inputMessage, selectedMarkets, selectedAssetTypes, riskLevel,
                    sortConfig, nextReq, exported, selectedInvestment, modalOpen >>

(***************************************************************************)
(* The entry points of a submit.                                           *)
(***************************************************************************)
TypedTexts == { "   ", " buy recommendations " }
DirectTexts == { "show me buy recommendations" }

\* <Input onChange>, disabled while loading
setInputMessage(text) ==
    /\ Mounted
    /\ ~loading
    /\ inputMessage' = text
    /\ UNCHANGED << variant, loading, chatMessages, analysisData, currentPage,
                    selectedMarkets, selectedAssetTypes, riskLevel, sortConfig,
                    pending, nextReq, origin, exported, selectedInvestment, modalOpen, last >>

\* <Input onKeyPress>: e.key === 'Enter' && !loading && handleSendMessage()
PressEnter ==
    /\ Mounted
    /\ ~loading
    /\ handleSendMessage(None)

\* <Button onClick>, disabled={loading || !inputMessage.trim()}
ClickSend ==
    /\ Mounted
    /\ ~loading
    /\ Truthy(trim(inputMessage))
    /\ handleSendMessage(None)

\* assets of the query, in each copy
QueryAssets_part_000 ==
    join([ i \in 1..Len(selectedAssetTypes) |-> replace(selectedAssetTypes[i], "_", " ") ], ", ")
QueryAssets_page == join(selectedAssetTypes, ", ")

FullAnalysisQuery ==
    LET markets == join(selectedMarkets, ", ")
        assets  == IF variant = "part_000" THEN QueryAssets_part_000 ELSE QueryAssets_page
    IN  "Give me " \o toLowerCase(riskLevel) \o " risk investment recommendations for "
        \o assets \o " in " \o markets \o " markets for long-term growth"

\* Mutant: the Run Full Analysis button is not disabled while loading.
handleFullAnalysis_AlwaysEnabled ==
    /\ Mounted
    /\ handleSendMessage(Some(FullAnalysisQuery))

\* the Run Full Analysis button, disabled={loading}
handleFullAnalysis ==
    /\ Mounted
    /\ ~loading
    /\ handleSendMessage(Some(FullAnalysisQuery))

\* handleSendMessage called while a request is in flight: the handler has no
\* guard of its own, only the controls that call it are disabled.
SubmitWhileBusy(text) ==
    /\ Mounted
    /\ loading
    /\ handleSendMessage(Some(text))

(***************************************************************************)
(* Filters, sort, pages, export.                                           *)
(***************************************************************************)
\* Mutant: the value is appended whether or not the array holds it.
toggle_AlwaysAppend(arr, x) == Append(arr, x)

toggle(arr, x) == IF includes(arr, x) THEN without(arr, x) ELSE Append(arr, x)

toggleMarket(market) ==
    /\ Mounted
    /\ selectedMarkets' = toggle(selectedMarkets, market)
    /\ analysisData' = AfterRender(analysisData, sortConfig)
    /\ UNCHANGED << variant, loading, chatMessages, inputMessage, currentPage,
                    selectedAssetTypes, riskLevel, sortConfig, pending, nextReq, origin,
                    exported, selectedInvestment, modalOpen, last >>

toggleAssetType(type) ==
    /\ Mounted
    /\ selectedAssetTypes' = toggle(selectedAssetTypes, type)
    /\ analysisData' = AfterRender(analysisData, sortConfig)
    /\ UNCHANGED << variant, loading, chatMessages, inputMessage, currentPage,
                    selectedMarkets, riskLevel, sortConfig, pending, nextReq, origin,
                    exported, selectedInvestment, modalOpen, last >>

setRiskLevel(risk) ==
    /\ Mounted
    /\ riskLevel' = risk
    /\ UNCHANGED << variant, loading, chatMessages, inputMessage, analysisData, currentPage,
                    selectedMarkets, selectedAssetTypes, sortConfig, pending, nextReq,
                    origin, exported, selectedInvestment, modalOpen, last >>

handleClearFilters ==
    /\ Mounted
    /\ selectedMarkets' = MARKETS
    /\ selectedAssetTypes' = ASSET_TYPES
    /\ riskLevel' = "Medium"
    /\ currentPage' = 1
    /\ analysisData' = AfterRender(analysisData, sortConfig)
    /\ UNCHANGED << variant, loading, chatMessages, inputMessage, sortConfig,
                    pending, nextReq, origin, exported, selectedInvestment, modalOpen, last >>

\* The column headers that call handleSort; only src/app/page.tsx renders them.
SortableColumns == { "symbol", "name", "four_pillar_score.overall_score" }

NextSortConfig(prev, key) ==
    [ key |-> key,
      direction |-> IF prev.key = key /\ prev.direction = "asc" THEN "desc" ELSE "asc" ]

handleSort(key) ==
    /\ Mounted
    /\ variant = "page"
    /\ TableShown
    /\ sortConfig' = NextSortConfig(sortConfig, key)
    /\ analysisData' = AfterRender(analysisData, sortConfig')
    /\ UNCHANGED << variant, loading, chatMessages, inputMessage, currentPage,
                    selectedMarkets, selectedAssetTypes, riskLevel, pending, nextReq,
                    origin, exported, selectedInvestment, modalOpen, last >>

\* the previous-page button, disabled={currentPage === 1}
PreviousPage ==
    /\ Mounted
    /\ PaginationShown
    /\ currentPage # 1
    /\ currentPage' = Max(1, currentPage - 1)
    /\ analysisData' = AfterRender(analysisData, sortConfig)
    /\ UNCHANGED << variant, loading, chatMessages, inputMessage,
                    selectedMarkets, selectedAssetTypes, riskLevel, sortConfig, pending,
                    nextReq, origin, exported, selectedInvestment, modalOpen, last >>

\* the next-page button, disabled={currentPage === totalPages}
NextPage ==
    /\ Mounted
    /\ PaginationShown
    /\ currentPage # totalPages
    /\ currentPage' = Min(totalPages, currentPage + 1)
    /\ analysisData' = AfterRender(analysisData, sortConfig)
    /\ UNCHANGED << variant, loading, chatMessages, inputMessage,
                    selectedMarkets, selectedAssetTypes, riskLevel, sortConfig, pending,
                    nextReq, origin, exported, selectedInvestment, modalOpen, last >>

\* new Date().toISOString() at the time of an export
ExportTimes == { "2026-01-31T23:59:59.000Z" }

\* Mutant: the file name carries no date.
ExportFileName_NoDate(now) == "financial_analysis.csv"

ExportFileName(now) == "financial_analysis_" \o split(now, "T")[1] \o ".csv"

\* the Export CSV button, disabled={!analysisData?.csv_export_data}
handleExportCSV(now) ==
    /\ Mounted
    /\ IsSome(analysisData)
    /\ Truthy(Get(analysisData).csv_export_data)
    /\ exported' = Some([ content  |-> Get(analysisData).csv_export_data,
                          type     |-> "text/csv",
                          download |-> ExportFileName(now) ])
    /\ UNCHANGED << variant, loading, chatMessages, inputMessage, analysisData, currentPage,
                    selectedMarkets, selectedAssetTypes, riskLevel, sortConfig, pending,
                    nextReq, origin, last,
                    selectedInvestment, modalOpen >>

(***************************************************************************)
(* The score bars: scoreToPercentage for the overall score of a row and    *)
(* pillarToPercentage for the four pillars of the detail dialog.  A        *)
(* percentage is a number in units of 10^-FracDigits as every number is;   *)
(* its value is that of the real-number expression, which is also the      *)
(* double the code computes for the scores of this module.                 *)
(***************************************************************************)
\* isNaN(num) ? 0 : (num / 10) * 100
PercentOf(num) == IF num.nan THEN Num(0) ELSE Num((num.n * 100) \div 10)

scoreToPercentage(score) == PercentOf(parseFloat(score))

\* The own properties of map.
PillarMap ==
    ("Excellent" :> 95) @@ ("Very Good" :> 85) @@ ("Strong" :> 80) @@ ("Good" :> 70)
    @@ ("Moderate" :> 60) @@ ("Solid (hard asset)" :> 75) @@ ("Index-based" :> 85)
    @@ ("N/A" :> 0)

\* Properties map inherits from Object.prototype
\* (Object.getOwnPropertyNames(Object.prototype)): each holds a function or
\* an object, never a number.
ObjectPrototypeKeys ==
    { "constructor", "toString", "toLocaleString", "valueOf", "hasOwnProperty",
      "isPrototypeOf", "propertyIsEnumerable", "__proto__", "__defineGetter__",
      "__defineSetter__", "__lookupGetter__", "__lookupSetter__" }

\* The property key a value is converted to.
PropertyKey(v) == IF v.t = "undefined" THEN "undefined" ELSE v.s

\* map[pillar]
MapGet(key) ==
    IF key \in DOMAIN PillarMap THEN Num(PillarMap[key] * Scale)
    ELSE IF key \in ObjectPrototypeKeys THEN [t |-> "inherited", key |-> key]
    ELSE Undefined

\* The JS truthiness of what map[pillar] can hold.
TruthyValue(v) ==
    CASE v.t = "number"    -> TruthyNumber(v)
      [] v.t = "undefined" -> FALSE
      [] v.t = "inherited" -> TRUE

\* map[pillar] || 50
pillarToPercentage(pillar) ==
    IF TruthyValue(MapGet(pillar)) THEN MapGet(pillar) ELSE Num(50 * Scale)

\* The progress bar of each row of the table; only src/unnamed/part_000
\* renders one.
ScoreBars ==
    IF variant = "part_000" /\ TableShown
    THEN [ i \in DOMAIN paginatedInvestments |->
             scoreToPercentage(Get(paginatedInvestments[i].four_pillar_score).overall_score) ]
    ELSE << >>

\* The detail dialog is rendered with its content.
DetailShown == modalOpen /\ IsSome(selectedInvestment)

PillarKeys == << "historical_returns", "risk_adjusted_returns", "fundamentals", "dividends" >>

\* selectedInvestment.four_pillar_score[key]
PillarValue(key) == Prop(Obj(Get(Get(selectedInvestment).four_pillar_score)), key)

\* The bar of each pillar of the detail dialog.
PillarBars ==
    IF DetailShown
    THEN [ k \in DOMAIN PillarKeys |-> pillarToPercentage(PropertyKey(PillarValue(PillarKeys[k]))) ]
    ELSE << >>

\* A click on row i of the table.  The dialog is modal: no row is clicked
\* while it is open.
selectInvestment(i) ==
    /\ Mounted
    /\ TableShown
    /\ ~modalOpen
    /\ i \in DOMAIN paginatedInvestments
    /\ selectedInvestment' = Some(paginatedInvestments[i])
    /\ modalOpen' = TRUE
    /\ analysisData' = AfterRender(analysisData, sortConfig)
    /\ UNCHANGED << variant, loading, chatMessages, inputMessage, currentPage,
                    selectedMarkets, selectedAssetTypes, riskLevel, sortConfig, pending,
                    nextReq, origin, exported, last >>

\* Dialog onOpenChange={setModalOpen}: the open dialog is closed.
setModalOpen(open) ==
    /\ Mounted
    /\ modalOpen # open
    /\ modalOpen' = open
    /\ analysisData' = AfterRender(analysisData, sortConfig)
    /\ UNCHANGED << variant, loading, chatMessages, inputMessage, currentPage,
                    selectedMarkets, selectedAssetTypes, riskLevel, sortConfig,
                    selectedInvestment, pending, nextReq, origin, exported, last >>

(***************************************************************************)
(* The specifications.                                                     *)
(*                                                                         *)
(* Spec is the chat session: every entry point of a submit, a host that    *)
(* calls handleSendMessage while a request is in flight, every answer of   *)
(* the agent, and page navigation.                                         *)
(*                                                                         *)
(* SpecView is the ranking view driven through its controls: the filters,  *)
(* the sort, the pages and the export, on the analyses that typed          *)
(* questions bring.                                                        *)
(***************************************************************************)
Next ==
    \/ \E text \in TypedTexts : setInputMessage(text)
    \/ PressEnter
    \/ ClickSend
    \/ handleFullAnalysis
    \/ \E text \in DirectTexts : SubmitWhileBusy(text)
    \/ \E p \in pending, res \in AgentResults : AgentCallSettles(p, res)
    \/ PreviousPage
    \/ NextPage

Spec == Init /\ [][Next]_vars

ToggledMarkets == { "NSE", "US" }
ToggledAssetTypes == { "etf" }
ChosenRiskLevels == { "Aggressive" }
ViewTexts == { " buy recommendations " }
ViewResults ==
    { Thrown, Returned(TRUE, Some(Response("error", None, Some("No data for that query.")))) }
    \cup { Returned(TRUE, Some(Response("success", Some(r), None))) : r \in Results }

NextView ==
    \/ \E text \in ViewTexts : setInputMessage(text)
    \/ ClickSend
    \/ \E p \in pending, res \in ViewResults : AgentCallSettles(p, res)
    \/ \E market \in ToggledMarkets : toggleMarket(market)
    \/ \E type \in ToggledAssetTypes : toggleAssetType(type)
    \/ \E risk \in ChosenRiskLevels : setRiskLevel(risk)
    \/ handleClearFilters
    \/ \E key \in SortableColumns : handleSort(key)
    \/ PreviousPage
    \/ NextPage
    \/ \E now \in ExportTimes : handleExportCSV(now)

SpecView == Init /\ [][NextView]_vars

(***************************************************************************)
(* SpecFilter is the filter on its own: the state is that after the first  *)
(* successful answer, drawn from FilterResults, and the controls are the   *)
(* checkboxes of every market and asset type, Clear Filters and the page   *)
(* buttons, so that every selection, the empty ones included, is reached.  *)
(***************************************************************************)
\* The state after the typed question text was answered with the result r.
AfterFirstAnswer(text, r) ==
    /\ variant \in Variants
    /\ loading = FALSE
    /\ chatMessages = << UserMessage(trim(text)),
                         AssistantMessage(SuccessContent(r), Some(r), Some(Metadata)) >>
    /\ inputMessage = ""
    /\ analysisData = Some(r)
    /\ currentPage = 1
    /\ selectedMarkets = MARKETS
    /\ selectedAssetTypes = ASSET_TYPES
    /\ riskLevel = "Medium"
    /\ sortConfig = InitialSortConfig
    /\ selectedInvestment = None
    /\ modalOpen = FALSE
    /\ pending = {}
    /\ nextReq = 1
    /\ origin = << 1, 1 >>
    /\ exported = None
    /\ last = [ op |-> "settle", req |-> 1, message |-> None,
                result |-> Returned(TRUE, Some(Response("success", Some(r), None))) ]

\* An analysis of one market and one asset type only.
NseStocksResult ==
    [ conversational_insight |-> "Large caps only.",
      analysis_summary       |-> "",
      ranked_investments     |-> Some(<<
          [ symbol |-> "TCS", name |-> "Tata Consultancy", market |-> "NSE",
            asset_type |-> "stock", four_pillar_score |-> Some([ overall_score |-> "9" ]) ],
          [ symbol |-> "INFY", name |-> "Infosys", market |-> "NSE",
            asset_type |-> "stock", four_pillar_score |-> Some([ overall_score |-> "10" ]) ] >>),
      csv_export_data        |-> "symbol,score/TCS,9/INFY,10" ]

FilterResults == { LargeResult, NseStocksResult }

InitFilter == \E text \in ViewTexts, r \in FilterResults : AfterFirstAnswer(text, r)

NextFilter ==
    \/ \E market \in Range(MARKETS) : toggleMarket(market)
    \/ \E type \in Range(ASSET_TYPES) : toggleAssetType(type)
    \/ handleClearFilters
    \/ PreviousPage
    \/ NextPage

SpecFilter == InitFilter /\ [][NextFilter]_vars

(***************************************************************************)
(* SpecSort is the sort on its own: the state is that after the first      *)
(* successful answer, whose investment list is any list of at most         *)
(* MaxListLen investments of the kinds below, and the controls are the     *)
(* column headers that call handleSort.                                    *)
(***************************************************************************)
MaxListLen == 4     \* investments of a list of SpecSort

\* The kinds of investment of SpecSort: an overall_score text, or an
\* investment without four_pillar_score, or one without name.
ScoreKinds == { "9", "10", "0", "0.0", "Good", "7.5x" }
InvestmentKinds == ScoreKinds \cup { "noscore", "noname" }

\* The investment of kind k at position i of its list.
KindInvestment(k, i) ==
    LET base == [ symbol |-> "S" \o Char(Digits, i + 1), market |-> "NSE",
                  asset_type |-> "stock" ]
    IN  CASE k = "noscore" ->
               base @@ [ name |-> "Fund", four_pillar_score |-> None ]
          [] k = "noname" ->
               base @@ [ four_pillar_score |-> Some([ overall_score |-> "8" ]) ]
          [] OTHER ->
               base @@ [ name |-> "Fund " \o k,
                         four_pillar_score |-> Some([ overall_score |-> k ]) ]

SortResult(kinds) ==
    [ conversational_insight |-> "Sorted candidates.",
      analysis_summary       |-> "",
      ranked_investments     |-> Some([ i \in DOMAIN kinds |-> KindInvestment(kinds[i], i) ]),
      csv_export_data        |-> "" ]

InitSort ==
    \E n \in 1..MaxListLen : \E kinds \in [ 1..n -> InvestmentKinds ] :
        \E text \in ViewTexts : AfterFirstAnswer(text, SortResult(kinds))

NextSort == \E key \in SortableColumns : handleSort(key)

SpecSort == InitSort /\ [][NextSort]_vars

(***************************************************************************)
(* SpecScore is the score display on its own: the state is that after the  *)
(* first successful answer with a list of at most MaxScoreListLen          *)
(* investments, each with an overall score of ScoreTexts and a             *)
(* fundamentals pillar of PillarTexts (the other pillars are left out),    *)
(* and the steps open and close the detail dialog of a row.                *)
(***************************************************************************)
MaxScoreListLen == 2    \* investments of a list of SpecScore

ScoreTexts == { "7.5", "10", "12", "-3", "garbage", "Excellent" }

PillarTexts ==
    DOMAIN PillarMap \cup { "Weak", "7.5", "garbage", "constructor" }

ScoreInvestment(c, i) ==
    [ symbol            |-> "S" \o Char(Digits, i + 1),
      name              |-> "Fund " \o Char(Digits, i + 1),
      market            |-> "NSE",
      asset_type        |-> "stock",
      four_pillar_score |-> Some([ overall_score |-> c[1], fundamentals |-> c[2] ]) ]

ScoreResult(cases) ==
    [ conversational_insight |-> "Scored candidates.",
      analysis_summary       |-> "",
      ranked_investments     |-> Some([ i \in DOMAIN cases |-> ScoreInvestment(cases[i], i) ]),
      csv_export_data        |-> "" ]

InitScore ==
    \E n \in 1..MaxScoreListLen : \E cases \in [ 1..n -> ScoreTexts \X PillarTexts ] :
        \E text \in ViewTexts : AfterFirstAnswer(text, ScoreResult(cases))

NextScore ==
    \/ \E i \in 1..MaxScoreListLen : selectInvestment(i)
    \/ setModalOpen(FALSE)

SpecScore == InitScore /\ [][NextScore]_vars

(***************************************************************************)
(* SpecUI is the session driven through the controls only: the three entry *)
(* points of a submit are the input's Enter key, the send button and the   *)
(* Run Full Analysis button, and handleSendMessage is never called while a *)
(* request is in flight.                                                   *)
(***************************************************************************)
NextUI ==
    \/ \E text \in TypedTexts : setInputMessage(text)
    \/ PressEnter
    \/ ClickSend
    \/ handleFullAnalysis
    \/ \E p \in pending, res \in AgentResults : AgentCallSettles(p, res)

SpecUI == Init /\ [][NextUI]_vars

(***************************************************************************)
(* SpecPages is the pagination on its own: the state is that after the     *)
(* first successful answer with a list of LongResultSize investments, long *)
(* enough for the page shown to lie two pages beyond the last page of a    *)
(* filtered list that still has more than one page; the controls are the   *)
(* checkboxes and the page buttons.                                        *)
(***************************************************************************)
LongResultSize == 45    \* investments of the list of SpecPages

LongInvestment(i) ==
    [ symbol            |-> "L" \o TwoDigits(i),
      name              |-> "Asset " \o TwoDigits(i),
      market            |-> MARKETS[((i - 1) % Len(MARKETS)) + 1],
      asset_type        |-> ASSET_TYPES[((i - 1) % Len(ASSET_TYPES)) + 1],
      four_pillar_score |-> Some([ overall_score |-> LargeScores[((i - 1) % Len(LargeScores)) + 1] ]) ]

LongResult ==
    [ conversational_insight |-> "The whole universe, ranked.",
      analysis_summary       |-> "",
      ranked_investments     |-> Some([ i \in 1..LongResultSize |-> LongInvestment(i) ]),
      csv_export_data        |-> "symbol,score/L01,7.5" ]

InitPages == \E text \in ViewTexts : AfterFirstAnswer(text, LongResult)

NextPages ==
    \/ \E market \in Range(MARKETS) : toggleMarket(market)
    \/ \E type \in Range(ASSET_TYPES) : toggleAssetType(type)
    \/ PreviousPage
    \/ NextPage

SpecPages == InitPages /\ [][NextPages]_vars

(***************************************************************************)
(* Properties.                                                             *)
(***************************************************************************)
\* The step is the settling of an agent call / the synchronous part of a submit.
SettleStep == last' # last /\ last'.op = "settle"
SubmitStep == last' # last /\ last'.op = "submit"

LastMessage == chatMessages[Len(chatMessages)]

\* C1: whichever way the agent call of a submit ends, busy is false once that
\* submit has returned: in every state whose last session step is the end of a
\* handleSendMessage call, loading is false.
C1_BusyClearedOnEveryExit == last.op = "settle" => loading = FALSE

\* C1 witness: a submit ended by an error raised while the payload was being
\* processed (status success, no result), and busy is false.
C1_Witness ==
    /\ last.op = "settle"
    /\ last.result = Returned(TRUE, Some(Response("success", None, None)))
    /\ LastMessage.content = NetworkErrorText
    /\ loading = FALSE

\* C2: when the agent call ends in a transport failure (rejected promise, or a
\* value with success false and no payload), the submit appends exactly one
\* Assistant entry with the network-error text, leaves the analysis as it was
\* and clears busy.
C2_TransportFailure ==
    [][ (SettleStep /\ IsTransportFailure(last'.result)) =>
          /\ chatMessages' = Append(chatMessages, AssistantMessage(NetworkErrorText, None, None))
          /\ analysisData' = analysisData
          /\ loading' = FALSE ]_vars

\* C2 witness: a transport failure reported as a value has been handled while
\* an earlier analysis is held.
C2_Witness ==
    /\ last.op = "settle"
    /\ last.result = Returned(FALSE, None)
    /\ IsSome(analysisData)
    /\ LastMessage = AssistantMessage(NetworkErrorText, None, None)
    /\ loading = FALSE

\* The text the claim C3 asks of a logical failure: the message when present.
C3_ClaimedText(response) ==
    IF IsSome(response.message) THEN Get(response.message) ELSE DefaultErrorText

\* The text the code gives: the message when present and non-empty.
C3_AmendedText(response) ==
    IF IsSome(response.message) /\ Get(response.message) # ""
    THEN Get(response.message) ELSE DefaultErrorText

\* C3 (as claimed): on a logical failure the submit appends exactly one
\* Assistant entry whose text is the agent's message when one is present and
\* the default string when it is absent; analysis and page are unchanged.
C3_AsClaimed ==
    [][ (SettleStep /\ IsLogicalFailure(last'.result)) =>
          /\ chatMessages' = Append(chatMessages,
                 AssistantMessage(C3_ClaimedText(Get(last'.result.response)), None, None))
          /\ analysisData' = analysisData
          /\ currentPage' = currentPage ]_vars

\* C3 (amended): on a logical failure the submit appends exactly one Assistant
\* entry whose text is the agent's message when one is present and non-empty,
\* and the default string when it is absent or empty; analysis and page are
\* unchanged.
C3_LogicalFailure ==
    [][ (SettleStep /\ IsLogicalFailure(last'.result)) =>
          /\ chatMessages' = Append(chatMessages,
                 AssistantMessage(C3_AmendedText(Get(last'.result.response)), None, None))
          /\ analysisData' = analysisData
          /\ currentPage' = currentPage ]_vars

\* C3 witness: a logical failure with an empty message has been answered with
\* the default text, on a page other than the first of a held analysis.
C3_Witness ==
    /\ last.op = "settle"
    /\ last.result = Returned(TRUE, Some(Response("error", None, Some(""))))
    /\ LastMessage = AssistantMessage(DefaultErrorText, None, None)
    /\ IsSome(analysisData)
    /\ currentPage > 1

\* The result a fully successful answer carries.
ResultOf(res) == Get(Get(res.response).result)

\* The investments of the analysis held, none without a list.
HeldInvestments ==
    IF IsSome(analysisData) /\ IsSome(Get(analysisData).ranked_investments)
    THEN Range(Get(Get(analysisData).ranked_investments)) ELSE {}

\* C4: the analysis held is absent or exactly the whole result of one agent
\* answer, every row of the table comes from it, and it changes only when a
\* fully successful answer is applied, to exactly the result of that answer
\* (never on a submit, a failure, a filter, sort, page or export action).
C4_AnalysisReplacedWhole ==
    /\ [](/\ (IsSome(analysisData) => Get(analysisData) \in Results)
          /\ Range(paginatedInvestments) \subseteq HeldInvestments)
    /\ [][ analysisData' # analysisData =>
             /\ SettleStep
             /\ IsFullSuccess(last'.result)
             /\ analysisData' = Some(ResultOf(last'.result)) ]_vars

\* C4 witness: the small analysis has replaced the large one, which an earlier
\* chat entry still carries; the table shows rows and a file has been exported.
C4_Witness ==
    /\ analysisData = Some(SmallResult)
    /\ \E i \in DOMAIN chatMessages : chatMessages[i].data = Some(LargeResult)
    /\ Len(paginatedInvestments) > 0
    /\ IsSome(exported)
    /\ sortConfig # InitialSortConfig
    /\ selectedMarkets # MARKETS

\* C5 (as claimed): whenever a submit completes with full success, currentPage
\* is 1 immediately afterwards.
C5_AsClaimed ==
    [][ (SettleStep /\ IsFullSuccess(last'.result)) => currentPage' = 1 ]_vars

\* C6 (as claimed): currentPage lies within [1, max(1, ceil(filteredCount /
\* pageSize))], filteredCount being the number of investments of the analysis
\* held that pass the filters.
C6_AsClaimed ==
    /\ 1 <= currentPage
    /\ currentPage <= Max(1, Ceil(Len(filtered), ITEMS_PER_PAGE))

\* The attached result of the last Assistant entry that has one, None without.
RECURSIVE LastAttached(_)
LastAttached(msgs) ==
    IF Len(msgs) = 0 THEN None
    ELSE IF msgs[Len(msgs)].role = "assistant" /\ IsSome(msgs[Len(msgs)].data)
         THEN msgs[Len(msgs)].data
    ELSE LastAttached(SubSeq(msgs, 1, Len(msgs) - 1))

\* C7: responses are applied in the order in which they complete.  Each
\* settling call appends its Assistant entry at the end of the conversation at
\* that moment and, when fully successful, makes its result the analysis held,
\* whatever request it answers; so the analysis held is always that of the
\* successful response that completed last.
C7_CompletionOrder ==
    /\ [](analysisData = LastAttached(chatMessages))
    /\ [][ SettleStep =>
             LET res == last'.result
                 m   == chatMessages'[Len(chatMessages) + 1]
             IN  /\ Len(chatMessages') > Len(chatMessages)
                 /\ SubSeq(chatMessages', 1, Len(chatMessages)) = chatMessages
                 /\ \A i \in (Len(chatMessages) + 1)..Len(chatMessages') :
                        chatMessages'[i].role = "assistant" /\ origin'[i] = last'.req
                 /\ m.data = IF IsFullSuccess(res) THEN Some(ResultOf(res)) ELSE None
                 /\ analysisData' = IF IsFullSuccess(res) THEN Some(ResultOf(res))
                                    ELSE analysisData ]_vars

\* C7 witness: request 1 was submitted first and completed last; both answers
\* were successes, and the analysis held is that of request 1.
C7_Witness ==
    /\ pending = {}
    /\ origin = << 1, 2, 2, 1 >>
    /\ chatMessages[3].data = Some(BareResult)
    /\ chatMessages[4].data = Some(LargeResult)
    /\ analysisData = Some(LargeResult)

\* C8: a submit with non-empty text appends a User entry with exactly that
\* text and sets busy while its agent call is still unsettled; and the User
\* entry of a submit precedes the Assistant entry of the same submit.
C8_UserEntryFirst ==
    /\ [](\A j \in DOMAIN chatMessages :
             chatMessages[j].role = "assistant" =>
                \E i \in 1..(j - 1) :
                    chatMessages[i].role = "user" /\ origin[i] = origin[j])
    /\ [][ SubmitStep =>
             LET text == IF IsSome(last'.message) /\ Get(last'.message) # ""
                         THEN Get(last'.message) ELSE trim(inputMessage)
             IN  /\ text # ""
                 /\ chatMessages' = Append(chatMessages, UserMessage(text))
                 /\ loading' = TRUE
                 /\ \E p \in pending' : p.id = last'.req /\ p.message = text ]_vars

\* C8 witness: the typed text " buy recommendations " has been submitted: its
\* User entry carries the trimmed text, busy is set and the call is unsettled.
C8_Witness ==
    /\ last.op = "submit"
    /\ last.message = None
    /\ LastMessage = UserMessage("buy recommendations")
    /\ loading = TRUE
    /\ \E p \in pending : p.id = last.req

\* The text the claim C9 asks of a success.
C9_ClaimedContent(data) ==
    IF data.conversational_insight # "" THEN data.conversational_insight
    ELSE IF data.analysis_summary # "" THEN data.analysis_summary
    ELSE DefaultSuccessText

\* C9 (as claimed): on full success the appended Assistant entry's text is the
\* insight when non-empty, otherwise the summary when non-empty, otherwise the
\* default string, and the entry carries the result.
C9_AsClaimed ==
    [][ (SettleStep /\ IsFullSuccess(last'.result)) =>
          LET data == ResultOf(last'.result)
              m    == chatMessages'[Len(chatMessages) + 1]
          IN  /\ Len(chatMessages') > Len(chatMessages)
              /\ m.role = "assistant"
              /\ m.content = C9_ClaimedContent(data)
              /\ m.data = Some(data) ]_vars

\* C10: across every step the conversation before the step is a prefix of the
\* conversation after it.
C10_AppendOnly ==
    [][ /\ Len(chatMessages') >= Len(chatMessages)
        /\ SubSeq(chatMessages', 1, Len(chatMessages)) = chatMessages ]_vars

\* C10 witness: two submits have run to completion, the second ended by a
\* thrown error: four entries, in the order of the steps.
C10_Witness ==
    /\ Len(chatMessages) = 4
    /\ pending = {}
    /\ last.result = Thrown
    /\ chatMessages[1].role = "user"
    /\ chatMessages[4] = AssistantMessage(NetworkErrorText, None, None)

\* A payload that says success and is not the structure the program expects:
\* no response or no result, no investment list, a null investment, or an
\* investment without its score object.
IsMalformedData(res) ==
    /\ res.kind = "value" /\ res.success
    /\ \/ ~IsSome(res.response)
       \/ /\ Get(res.response).status = "success"
          /\ \/ ~IsSome(Get(res.response).result)
             \/ ~IsSome(ResultOf(res).ranked_investments)
             \/ \E i \in DOMAIN Get(ResultOf(res).ranked_investments) :
                    LET inv == Get(ResultOf(res).ranked_investments)[i]
                    IN  IsNull(inv) \/ ~IsSome(inv.four_pillar_score)

\* C11 (as claimed): a submit whose agent call ends in a transport error, a
\* logical failure or malformed data appends exactly one Assistant entry, lets
\* no error escape, and leaves the session usable: busy is false and the
\* component still renders, so a further submit is accepted.
C11_AsClaimed ==
    [][ (/\ SettleStep
         /\ \/ IsTransportFailure(last'.result)
            \/ IsLogicalFailure(last'.result)
            \/ IsMalformedData(last'.result)) =>
          /\ Len(chatMessages') = Len(chatMessages) + 1
          /\ SubSeq(chatMessages', 1, Len(chatMessages)) = chatMessages
          /\ chatMessages'[Len(chatMessages')].role = "assistant"
          /\ loading' = FALSE
          /\ Mounted' ]_vars

\* The Assistant entries a step appends that carry a result.
NewAttached ==
    { chatMessages'[i].data : i \in { j \in (Len(chatMessages) + 1)..Len(chatMessages') :
                                          /\ chatMessages'[j].role = "assistant"
                                          /\ IsSome(chatMessages'[j].data) } }

\* C12: the completion of a submit is one step.  A step that appends the
\* Assistant entry of a successful response also makes that response's result
\* the analysis held and leaves busy false; a step that changes the analysis
\* held also appends the Assistant entry carrying the new result; and a step
\* that appends any Assistant entry leaves busy false.  So no state shows the
\* entry with the previous analysis, or the response with busy still true.
C12_CompletionIsOneStep ==
    [][ /\ \A d \in NewAttached : analysisData' = d
        /\ analysisData' # analysisData => analysisData' \in NewAttached
        /\ (\E i \in (Len(chatMessages) + 1)..Len(chatMessages') :
                chatMessages'[i].role = "assistant") =>
              /\ loading' = FALSE
              /\ ~\E p \in pending' : p.id = last'.req ]_vars

\* C12 witness: the successful answer to the second submit has just been
\* applied over the large analysis: its entry is the last one, its result is
\* the analysis held, busy is false and no call is in flight.
C12_Witness ==
    /\ last.op = "settle"
    /\ IsFullSuccess(last.result)
    /\ Len(chatMessages) = 4
    /\ chatMessages[2].data = Some(LargeResult)
    /\ chatMessages[4].data = Some(BareResult)
    /\ analysisData = Some(BareResult)
    /\ loading = FALSE
    /\ pending = {}

\* The investment list of the analysis held.
HeldList == Get(Get(analysisData).ranked_investments)

\* The k-th smallest element of a set of indices.
Kth(idx, k) == CHOOSE i \in idx : Cardinality({ j \in idx : j < i }) = k - 1

\* The elements of list at the indices idx, in the order of the list.
Pick(list, idx) == [ k \in 1..Cardinality(idx) |-> list[Kth(idx, k)] ]

\* C13: the filter returns, in input order, exactly the investments whose
\* market is selected (or no market is selected) and whose asset type is
\* selected (or no asset type is selected); with markets = {NSE} every
\* returned investment is of market NSE.
C13_FilterIsExactSubsequence ==
    LET passing == { i \in DOMAIN HeldList :
                       /\ \/ selectedMarkets = << >>
                          \/ HeldList[i].market \in Range(selectedMarkets)
                       /\ \/ selectedAssetTypes = << >>
                          \/ HeldList[i].asset_type \in Range(selectedAssetTypes) }
    IN  /\ filtered = Pick(HeldList, passing)
        /\ selectedMarkets = << "NSE" >> =>
              \A i \in DOMAIN filtered : filtered[i].market = "NSE"

\* C13 witness: only NSE is ticked, one asset type is unticked, and the filter
\* has kept the NSE investments of the other asset types of the large result.
C13_Witness ==
    /\ analysisData = Some(LargeResult)
    /\ selectedMarkets = << "NSE" >>
    /\ selectedAssetTypes = << "stock", "etf" >>
    /\ Len(filtered) = 5
    /\ filtered[1].symbol = "A01"
    /\ filtered[2].symbol = "A09"

\* C14 (as claimed): when no market is selected, or no asset type is
\* selected, the filtered list is empty.
C14_AsClaimed ==
    (selectedMarkets = << >> \/ selectedAssetTypes = << >>) => filtered = << >>

\* C14 (amended): an empty selection matches everything on its axis.  With
\* no market selected the filtered list is, in input order, the investments
\* that pass the asset-type rule; with no asset type selected, those that
\* pass the market rule; with neither, the whole list.
C14_EmptyAxisIsWildcard ==
    /\ selectedMarkets = << >> =>
          filtered = Pick(HeldList, { i \in DOMAIN HeldList :
                                        \/ selectedAssetTypes = << >>
                                        \/ includes(selectedAssetTypes, HeldList[i].asset_type) })
    /\ selectedAssetTypes = << >> =>
          filtered = Pick(HeldList, { i \in DOMAIN HeldList :
                                        \/ selectedMarkets = << >>
                                        \/ includes(selectedMarkets, HeldList[i].market) })
    /\ (selectedMarkets = << >> /\ selectedAssetTypes = << >>) => filtered = HeldList

\* C14 witness: every market is unticked and only etf is ticked: the eight
\* etf rows of the large result, of all markets, pass the filter.
C14_Witness ==
    /\ analysisData = Some(LargeResult)
    /\ selectedMarkets = << >>
    /\ selectedAssetTypes = << "etf" >>
    /\ Len(filtered) = 8
    /\ { filtered[i].market : i \in DOMAIN filtered } = Range(MARKETS)

\* The position of the investment with the given symbol in a list.
PositionOf(list, symbol) == CHOOSE i \in DOMAIN list : list[i].symbol = symbol

\* The comparator's verdict on the investments i and j of the list held.
HeldVerdict(i, j) == Compare(HeldList[i], HeldList[j], sortConfig)

\* C15 (as claimed): the sort is stable in both directions: in every table
\* that is rendered, two investments whose sort keys compare equal are in the
\* output in the relative order they have in the input.
C15_AsClaimed ==
    Mounted =>
        \A i, j \in DOMAIN HeldList :
            (i < j /\ HeldVerdict(i, j) = 0 /\ HeldVerdict(j, i) = 0) =>
                PositionOf(filteredInvestments, HeldList[i].symbol)
                    < PositionOf(filteredInvestments, HeldList[j].symbol)

\* The value the field path of sortConfig resolves to on an investment,
\* before the comparator converts it.
RawKey(inv) == Walk(Obj(inv), split(sortConfig.key, "."))

\* The text s as a whole is a decimal number.
ParsesFully(s) ==
    LET lit == StrDecimalLiteral(s) IN lit.ok /\ lit.len = Len(s)

\* The order the claim C16 asks of two key texts, ascending: -1, 0 or 1.
\* Both numeric: by value.  Neither numeric: as text.
C16_ClaimedOrder(a, b) ==
    IF ParsesFully(a) /\ ParsesFully(b)
    THEN (IF StrDecimalLiteral(a).n < StrDecimalLiteral(b).n THEN 0 - 1
          ELSE IF StrDecimalLiteral(a).n > StrDecimalLiteral(b).n THEN 1 ELSE 0)
    ELSE (IF StringLess(a, b) THEN 0 - 1 ELSE IF StringLess(b, a) THEN 1 ELSE 0)

\* C16 (as claimed): in every table that is rendered, two keys that are both
\* texts parsing fully as decimal numbers are compared by value ("9" before
\* "10" ascending, "0" equal to "0.0"), and two keys that are both texts not
\* parsing fully as numbers are compared lexicographically; the direction
\* turns the sign.
C16_AsClaimed ==
    Mounted =>
        \A i, j \in DOMAIN HeldList :
            LET a == RawKey(HeldList[i])
                b == RawKey(HeldList[j])
            IN  (/\ a.t = "string" /\ b.t = "string"
                 /\ ParsesFully(a.s) = ParsesFully(b.s)) =>
                    HeldVerdict(i, j) =
                        IF sortConfig.direction = "asc" THEN C16_ClaimedOrder(a.s, b.s)
                        ELSE 0 - C16_ClaimedOrder(a.s, b.s)

\* The key of an investment of the list held is undefined.
KeyUndefined(inv) == RawKey(inv).t = "undefined"

\* C17 (as claimed): in every table that is rendered, an investment that
\* lacks a field on the field path is ordered as lowest: in the output it
\* comes before every investment with a defined key when the direction is
\* ascending and after every one when descending, and investments with
\* undefined keys keep their input order among themselves.
C17_AsClaimed ==
    Mounted =>
        LET out == filteredInvestments
        IN  \A i, j \in DOMAIN out :
                /\ (i < j /\ KeyUndefined(out[i]) /\ KeyUndefined(out[j])) =>
                      PositionOf(HeldList, out[i].symbol) < PositionOf(HeldList, out[j].symbol)
                /\ (KeyUndefined(out[i]) /\ ~KeyUndefined(out[j])) =>
                      IF sortConfig.direction = "asc" THEN i < j ELSE j < i

\* C18 (as claimed): totalPages is max(1, ceil(n / p)) for the n investments
\* that pass the filter and the page size p; an empty filtered list has
\* totalPages 1, and its page 1 holds no item.
C18_AsClaimed ==
    /\ totalPages = Max(1, Ceil(Len(filteredInvestments), ITEMS_PER_PAGE))
    /\ Len(filteredInvestments) = 0 =>
          (totalPages = 1 /\ (currentPage = 1 => paginatedInvestments = << >>))

\* C19 (as claimed): the page is clamped to [1, totalPages] before the slice:
\* the rows shown are those of the nearest valid page, and the window is never
\* empty while the filtered list is not.
C19_AsClaimed ==
    LET pages   == Max(1, Ceil(Len(filteredInvestments), ITEMS_PER_PAGE))
        clamped == Min(Max(currentPage, 1), pages)
    IN  /\ paginatedInvestments =
              slice(filteredInvestments, (clamped - 1) * ITEMS_PER_PAGE,
                    clamped * ITEMS_PER_PAGE)
        /\ Len(filteredInvestments) > 0 => Len(paginatedInvestments) > 0

\* The investment list of the answer as the agent sent it.
ReceivedList == Get(ResultOf(last.result).ranked_investments)

\* C20: deriving the table changes neither the analysis held nor the result
\* attached to the conversation entry: after any number of derivations under
\* any sort state both are the result as the agent sent it, list order
\* included; so the rows shown are a function of that result and of the
\* filter, sort and page state alone, the same at every derivation from the
\* same state.
C20_DerivationLeavesStoredList ==
    /\ analysisData = Some(ResultOf(last.result))
    /\ LastMessage.data = Some(ResultOf(last.result))
    /\ paginatedInvestments =
          slice(sort(FilterInvestments(ReceivedList, selectedMarkets, selectedAssetTypes),
                     sortConfig),
                (currentPage - 1) * ITEMS_PER_PAGE, currentPage * ITEMS_PER_PAGE)

\* C20 witness: the table has been derived again under a sort state other
\* than the initial one, the rows are in another order than the list held,
\* and the list held is still in the order the agent sent.
C20_Witness ==
    /\ sortConfig = [ key |-> "four_pillar_score.overall_score", direction |-> "asc" ]
    /\ Len(HeldList) = 3
    /\ HeldList = ReceivedList
    /\ Len(paginatedInvestments) = 3
    /\ paginatedInvestments # HeldList
    /\ paginatedInvestments[1].symbol = "S3"

(***************************************************************************)
(* The score display (SpecScore).                                          *)
(***************************************************************************)
\* The text a score bar / a pillar bar was computed from.
RowScore(i) == Get(paginatedInvestments[i].four_pillar_score).overall_score
PillarLabel(k) == PropertyKey(PillarValue(PillarKeys[k]))

\* C21, as the claim states it: the bar of every row whose score parses as a
\* number lies within [0, 100], also for a score above 10 and a negative one.
C21_AsClaimed ==
    \A i \in DOMAIN ScoreBars :
        ~parseFloat(RowScore(i)).nan =>
            /\ ScoreBars[i].n >= 0
            /\ ScoreBars[i].n <= 100 * Scale

\* The table of the claim, and 50 for a label that is not in it.
C22_ClaimedPercent(label) ==
    CASE label = "Excellent"          -> 95
      [] label = "Very Good"          -> 85
      [] label = "Strong"             -> 80
      [] label = "Good"               -> 70
      [] label = "Moderate"           -> 60
      [] label = "Solid (hard asset)" -> 75
      [] label = "Index-based"        -> 85
      [] label = "N/A"                -> 0
      [] OTHER                        -> 50

\* C22, as the claim states it: every pillar bar of the detail dialog is the
\* table value of its label, and 50 for a label not in the table.
C22_AsClaimed ==
    \A k \in DOMAIN PillarBars :
        PillarBars[k] = Num(C22_ClaimedPercent(PillarLabel(k)) * Scale)

\* The three examples of the claim.
C23_Examples == ("Excellent" :> 95) @@ ("7.5" :> 75) @@ ("garbage" :> 0)

\* C23, as the claim states it: whichever bar shows one of the three example
\* texts, an overall score or a pillar, its percentage is that of the example:
\* "Excellent" 95, "7.5" 75, "garbage" 0.
C23_AsClaimed ==
    /\ \A i \in DOMAIN ScoreBars :
           RowScore(i) \in DOMAIN C23_Examples =>
               ScoreBars[i] = Num(C23_Examples[RowScore(i)] * Scale)
    /\ \A k \in DOMAIN PillarBars :
           PillarLabel(k) \in DOMAIN C23_Examples =>
               PillarBars[k] = Num(C23_Examples[PillarLabel(k)] * Scale)

(***************************************************************************)
(* Export (SpecView).                                                      *)
(***************************************************************************)
\* The calendar date of an ISO timestamp: its first ten characters.
IsoDate(now) == SubSeq(now, 1, 10)

\* C24: a step produces a download only when an analysis with a non-empty CSV
\* payload is held; the download is then exactly that payload, which is the
\* payload of the result attached last to the conversation, whatever the
\* filter, sort and page state, under the name financial_analysis_<date of the
\* export>.csv; and the step changes nothing else.
C24_ExportIsPayloadVerbatim ==
    [][ exported' # exported =>
          /\ IsSome(analysisData)
          /\ Get(analysisData).csv_export_data # ""
          /\ IsSome(exported')
          /\ Get(exported').content = Get(analysisData).csv_export_data
          /\ Get(exported').content = Get(LastAttached(chatMessages)).csv_export_data
          /\ \E now \in ExportTimes :
                 Get(exported').download = "financial_analysis_" \o IsoDate(now) \o ".csv"
          /\ UNCHANGED << variant, loading, chatMessages, inputMessage, analysisData,
                          currentPage, selectedMarkets, selectedAssetTypes, riskLevel,
                          sortConfig, selectedInvestment, modalOpen, pending, nextReq,
                          origin, last >> ]_vars

\* C24 witness: the large analysis is held on its second page with a market
\* unticked and another sort state, and its CSV payload has been exported.
C24_Witness ==
    /\ analysisData = Some(LargeResult)
    /\ currentPage = 2
    /\ ~includes(selectedMarkets, "NSE")
    /\ sortConfig.key = "symbol"
    /\ IsSome(exported)
    /\ Get(exported).content = LargeResult.csv_export_data
    /\ Get(exported).download = "financial_analysis_2026-01-31.csv"

(***************************************************************************)
(* The end-to-end scenario (Spec).                                         *)
(***************************************************************************)
\* The last step completed a submit with full success and the result of 25
\* investments, and the filter and sort state are the initial ones.
C25_Scenario ==
    /\ last.op = "settle"
    /\ last.result = Returned(TRUE, Some(Response("success", Some(LargeResult), None)))
    /\ selectedMarkets = MARKETS
    /\ selectedAssetTypes = ASSET_TYPES
    /\ sortConfig = InitialSortConfig

\* The overall score of an investment as a number.
C25_Score(inv) == parseFloat(Get(inv.four_pillar_score).overall_score).n

\* The rows of page 1 as the claim describes them: the page size is 10 and the
\* rows are the 10 investments of highest overall score in descending order.
C25_TopTenShown ==
    /\ ITEMS_PER_PAGE = 10
    /\ Len(paginatedInvestments) = 10
    /\ \A i \in 1..(Len(paginatedInvestments) - 1) :
           C25_Score(paginatedInvestments[i]) >= C25_Score(paginatedInvestments[i + 1])
    /\ \A inv \in HeldInvestments :
           inv \in Range(paginatedInvestments)
           \/ \A i \in DOMAIN paginatedInvestments :
                  C25_Score(inv) <= C25_Score(paginatedInvestments[i])

\* C25, as the claim states it: the step that completes the scenario's submit
\* leaves, of that submit, exactly one User entry followed by one Assistant
\* entry with the insight text, makes the result the analysis held and leaves
\* currentPage at 1; and on page 1 the page size is 10 and the rows shown are
\* the 10 investments of highest overall score in descending order.
C25_AsClaimed ==
    /\ [][ (SettleStep /\ C25_Scenario') =>
             /\ \E u, a \in DOMAIN chatMessages' :
                    /\ u < a
                    /\ { i \in DOMAIN chatMessages' : origin'[i] = last'.req } = { u, a }
                    /\ chatMessages'[u].role = "user"
                    /\ chatMessages'[a].role = "assistant"
                    /\ chatMessages'[a].content = LargeResult.conversational_insight
             /\ analysisData' = Some(LargeResult)
             /\ currentPage' = 1 ]_vars
    /\ []((C25_Scenario /\ currentPage = 1) => C25_TopTenShown)

(***************************************************************************)
(* The filter state (SpecFilter).                                          *)
(***************************************************************************)
\* No value is held twice.
NoDuplicates(arr) == \A i, j \in DOMAIN arr : i # j => arr[i] # arr[j]

\* C26: the selected markets are known markets and the selected asset types
\* known asset types, each held without duplicates.
C26_FiltersAreValidSubsets ==
    /\ Range(selectedMarkets) \subseteq Range(MARKETS)
    /\ NoDuplicates(selectedMarkets)
    /\ Range(selectedAssetTypes) \subseteq Range(ASSET_TYPES)
    /\ NoDuplicates(selectedAssetTypes)

\* C26 witness: NSE was unticked and ticked again, so it is held last, and two
\* of the asset types were unticked.
C26_Witness ==
    /\ selectedMarkets = << "BSE", "CMX", "US", "NSE" >>
    /\ selectedAssetTypes = << "stock" >>

(***************************************************************************)
(* Conversation and table (Spec).                                          *)
(***************************************************************************)
\* The Assistant entries that carry an attached result.
Attached == { i \in DOMAIN chatMessages :
                chatMessages[i].role = "assistant" /\ IsSome(chatMessages[i].data) }

\* C27: an analysis is held exactly when some Assistant entry carries an
\* attached result, and it is then the result of the last such entry; and an
\* entry appended by a completing submit carries an attached result only when
\* the answer was a full success, the result being that of the answer.
C27_ChatAndTableConsistent ==
    /\ [](/\ IsSome(analysisData) <=> Attached # {}
          /\ \A i \in Attached :
                 (\A j \in Attached : j <= i) => chatMessages[i].data = analysisData)
    /\ [][ SettleStep =>
             \A i \in (Len(chatMessages) + 1)..Len(chatMessages') :
                 IsSome(chatMessages'[i].data) =>
                     /\ IsFullSuccess(last'.result)
                     /\ chatMessages'[i].data = Some(ResultOf(last'.result)) ]_vars

\* C27 witness: a full success was followed by a logical failure; the failure's
\* entry carries nothing and the analysis held is still that of the success.
C27_Witness ==
    /\ Len(chatMessages) = 4
    /\ chatMessages[2].data = Some(LargeResult)
    /\ chatMessages[4].role = "assistant"
    /\ chatMessages[4].data = None
    /\ last.op = "settle"
    /\ IsLogicalFailure(last.result)
    /\ analysisData = Some(LargeResult)

\* The number of entries of the conversation with the given role.
CountRole(role) == Cardinality({ i \in DOMAIN chatMessages : chatMessages[i].role = role })

\* C28, as the claim states it: the User entries are as many as the Assistant
\* entries and the agent calls not yet completed together; a submit adds one
\* User entry and one call, a completion takes one call and adds one Assistant
\* entry.
C28_AsClaimed ==
    /\ [](CountRole("user") = CountRole("assistant") + Cardinality(pending))
    /\ [][ SubmitStep =>
             /\ Len(chatMessages') = Len(chatMessages) + 1
             /\ chatMessages'[Len(chatMessages')].role = "user"
             /\ Cardinality(pending') = Cardinality(pending) + 1 ]_vars
    /\ [][ SettleStep =>
             /\ Len(chatMessages') = Len(chatMessages) + 1
             /\ chatMessages'[Len(chatMessages')].role = "assistant"
             /\ Cardinality(pending') = Cardinality(pending) - 1 ]_vars

(***************************************************************************)
(* Submits through the controls (SpecUI).                                  *)
(***************************************************************************)
\* C29: with submits started by the Enter key, the send button and the Run
\* Full Analysis button only, a submit starts only while busy is false, at most
\* one agent request is in flight, and busy is true exactly while one is.
C29_SingleFlightUnderUI ==
    /\ [](/\ Cardinality(pending) <= 1
          /\ loading <=> pending # {})
    /\ [][ SubmitStep => (~loading /\ pending = {}) ]_vars

\* C29 witness: the first request has completed and the second, started with
\* the Run Full Analysis button, is in flight.
C29_Witness ==
    /\ loading
    /\ Cardinality(pending) = 1
    /\ nextReq = 2
    /\ last.op = "submit"
    /\ last.message = Some(FullAnalysisQuery)
    /\ Len(chatMessages) = 3

(***************************************************************************)
(* The page buttons (SpecPages).                                           *)
(***************************************************************************)
\* C30, as the claim states it: a step that changes currentPage, which in
\* SpecPages is a click on the previous-page or the next-page button, changes
\* it by one, leaves it within 1..totalPages, and leaves the filter state, the
\* sort state, the analysis held, the conversation and busy as they were.
C30_AsClaimed ==
    [][ currentPage' # currentPage =>
          /\ currentPage' \in { currentPage - 1, currentPage + 1 }
          /\ 1 <= currentPage'
          /\ currentPage' <= totalPages
          /\ UNCHANGED << selectedMarkets, selectedAssetTypes, riskLevel, sortConfig,
                          analysisData, chatMessages, loading >> ]_vars

====
